---- MODULE Spec2Model ----
(***************************************************************************)
(* Model of tools/hunt_nits.py: a scanner that walks the top-level         *)
(* "kosmos*" directories, reads every *.kt file, tests each line against   *)
(* three regular expressions and prints the hit lines, highlighted when    *)
(* stdout is a terminal.                                                   *)
(*                                                                         *)
(* A string is a sequence of characters, a character a one-element TLA+    *)
(* string (control characters are written by their escape); a path is the  *)
(* sequence of its parts, as pathlib keeps it.                             *)
(***************************************************************************)
EXTENDS Integers, Sequences, FiniteSets, TLC

VARIABLES
    tree,         \* the file system below ".": path -> [content, status]
    color,        \* sys.stdout.isatty()
    pc,           \* position of main()
    kosmos_dirs,  \* line 22, in the order iterdir() produced them
    dir_iter,     \* what is left of "for kosmos_dir in sorted(kosmos_dirs)"
    kosmos_dir,   \* the loop variable of line 26
    file_iter,    \* what is left of "for file_path in sorted(rglob)"
    file_path,    \* the loop variable of line 27
    lines,        \* line 32
    matches,      \* line 36
    mi,           \* position of the loop of line 48 in matches
    any_hits,     \* line 24
    out,          \* the lines written to stdout, one per print()
    result        \* what main() returned, -1 before it has

vars == <<tree, color, pc, kosmos_dirs, dir_iter, kosmos_dir, file_iter,
          file_path, lines, matches, mi, any_hits, out, result>>

----------------------------------------------------------------------------
(* Characters *)

LF == "\n"
CR == "\r"
FF == "\f"
VT == "\\x0b"
FS == "\\x1c"
GS == "\\x1d"
RS == "\\x1e"
NEL == "\\x85"
LS == "\\u2028"
PS == "\\u2029"
ESC == "\\x1b"

\* The characters of the model in code point order: Python compares
\* strings, and so path parts, by code point.
CodeOrder ==
    << LF, VT, FF, CR, ESC, FS, GS, RS, " ", "(", ")", "-", ".", "/",
       "0", "1", "2", "3", "4", "5", "6", "7", "8", "9", ":",
       "A", "B", "C", "D", "E", "F", "G", "H", "I", "J", "K", "L", "M",
       "N", "O", "P", "Q", "R", "S", "T", "U", "V", "W", "X", "Y", "Z",
       "[", "_",
       "a", "b", "c", "d", "e", "f", "g", "h", "i", "j", "k", "l", "m",
       "n", "o", "p", "q", "r", "s", "t", "u", "v", "w", "x", "y", "z",
       NEL, LS, PS >>

Code(c) == CHOOSE i \in DOMAIN CodeOrder : CodeOrder[i] = c

Digits == <<"0", "1", "2", "3", "4", "5", "6", "7", "8", "9">>

\* What the regular expression engine takes for a word character (\w).
WordChars ==
    { "A", "B", "C", "D", "E", "F", "G", "H", "I", "J", "K", "L", "M",
      "N", "O", "P", "Q", "R", "S", "T", "U", "V", "W", "X", "Y", "Z",
      "a", "b", "c", "d", "e", "f", "g", "h", "i", "j", "k", "l", "m",
      "n", "o", "p", "q", "r", "s", "t", "u", "v", "w", "x", "y", "z",
      "0", "1", "2", "3", "4", "5", "6", "7", "8", "9", "_" }

IsWord(c) == c \in WordChars

----------------------------------------------------------------------------
(* The constants of the script *)

SKIP_DIRS ==
    { <<"b", "u", "i", "l", "d">>,
      <<".", "g", "r", "a", "d", "l", "e">>,
      <<"o", "u", "t">>,
      <<".", "i", "d", "e", "a">>,
      <<".", "g", "i", "t">> }

\* The assertion \b inside a pattern; every other element is a literal.
WB == "\\b"

EqEqv == <<"e", "q", ".", "e", "q", "v", "(">>
PrRender == <<"p", "r", ".", "r", "e", "n", "d", "e", "r", "(">>
PrintableCompanion ==
    <<"P", "r", "i", "n", "t", "a", "b", "l", "e", ".",
      "C", "o", "m", "p", "a", "n", "i", "o", "n">>

\* The rule table with the word boundaries forgotten.
NITS_NoBoundary ==
    << [pat |-> EqEqv, label |-> EqEqv],
       [pat |-> PrRender, label |-> PrRender],
       [pat |-> PrintableCompanion, label |-> PrintableCompanion] >>

NITS ==
    << [pat |-> <<WB>> \o EqEqv, label |-> EqEqv],
       [pat |-> <<WB>> \o PrRender, label |-> PrRender],
       [pat |-> <<WB>> \o PrintableCompanion \o <<WB>>,
        label |-> PrintableCompanion] >>

RED == <<ESC, "[", "9", "1", "m">>
RESET == <<ESC, "[", "0", "m">>

----------------------------------------------------------------------------
(* re: search and sub for patterns of literals and \b *)

\* \b at position i of s: between s[i-1] and s[i], exactly one is a word
\* character (the outside of the string counts as a non-word character).
AtWordBoundary(s, i) ==
    LET before == i > 1 /\ IsWord(s[i - 1])
        after == i <= Len(s) /\ IsWord(s[i])
    IN  before # after

RECURSIVE MatchFrom(_, _, _, _)
\* Elements k.. of pat match s from position i on.
MatchFrom(pat, k, s, i) ==
    IF k > Len(pat) THEN TRUE
    ELSE IF pat[k] = WB
         THEN AtWordBoundary(s, i) /\ MatchFrom(pat, k + 1, s, i)
         ELSE i <= Len(s) /\ s[i] = pat[k] /\ MatchFrom(pat, k + 1, s, i + 1)

\* The length of every match of pat: the number of its literals.
MatchLen(pat) == Cardinality({k \in DOMAIN pat : pat[k] # WB})

\* pat.search(s) is not None
Search(pat, s) == \E i \in 1..(Len(s) + 1) : MatchFrom(pat, 1, s, i)

\* The lambda of line 52 without its test of color.
Repl_Always(m) == RED \o m \o RESET

\* The lambda of line 52, applied to the matched text m.
Repl(m) == IF color THEN RED \o m \o RESET ELSE m

RECURSIVE SubFrom(_, _, _)
\* pat.sub(repl, s) from position i on: the leftmost matches, not
\* overlapping, each replaced; everything else copied.
SubFrom(pat, s, i) ==
    IF i > Len(s) THEN <<>>
    ELSE IF MatchFrom(pat, 1, s, i)
         THEN Repl(SubSeq(s, i, i + MatchLen(pat) - 1))
                  \o SubFrom(pat, s, i + MatchLen(pat))
         ELSE <<s[i]>> \o SubFrom(pat, s, i + 1)

Sub(pat, s) == SubFrom(pat, s, 1)

----------------------------------------------------------------------------
(* str and pathlib *)

\* The line boundaries of str.splitlines().
LineBreaks == {LF, CR, VT, FF, FS, GS, RS, NEL, LS, PS}

RECURSIVE SplitLines(_)
\* s.splitlines(): cut at every line boundary (a CR LF pair is one), the
\* boundaries dropped, no empty last line after a final boundary.
SplitLines(s) ==
    IF s = <<>> THEN <<>>
    ELSE LET brk == {j \in DOMAIN s : s[j] \in LineBreaks}
         IN  IF brk = {} THEN <<s>>
             ELSE LET j == CHOOSE x \in brk : \A y \in brk : x <= y
                      n == IF s[j] = CR /\ j < Len(s) /\ s[j + 1] = LF
                           THEN 2 ELSE 1
                  IN  <<SubSeq(s, 1, j - 1)>>
                          \o SplitLines(SubSeq(s, j + n, Len(s)))

RECURSIVE DecStr(_)
\* str(n) of a natural number
DecStr(n) ==
    IF n < 10 THEN <<Digits[n + 1]>>
    ELSE DecStr(n \div 10) \o <<Digits[(n % 10) + 1]>>

RECURSIVE StrLess(_, _)
\* a < b on str: by code point, a proper prefix first
StrLess(a, b) ==
    IF a = <<>> THEN b # <<>>
    ELSE IF b = <<>> THEN FALSE
    ELSE IF Head(a) = Head(b) THEN StrLess(Tail(a), Tail(b))
    ELSE Code(Head(a)) < Code(Head(b))

RECURSIVE PathLess(_, _)
\* p < q on Path: the lists of parts compared part by part
PathLess(p, q) ==
    IF p = <<>> THEN q # <<>>
    ELSE IF q = <<>> THEN FALSE
    ELSE IF Head(p) = Head(q) THEN PathLess(Tail(p), Tail(q))
    ELSE StrLess(Head(p), Head(q))

RECURSIVE InsertSorted(_, _)
InsertSorted(p, s) ==
    IF s = <<>> THEN <<p>>
    ELSE IF PathLess(p, Head(s)) THEN <<p>> \o s
    ELSE <<Head(s)>> \o InsertSorted(p, Tail(s))

\* sorted() left out: the order of enumeration kept.
SortedPaths_Unsorted(s) == s

RECURSIVE SortedPaths(_)
\* sorted(paths)
SortedPaths(s) ==
    IF s = <<>> THEN <<>>
    ELSE InsertSorted(s[Len(s)], SortedPaths(SubSeq(s, 1, Len(s) - 1)))

RECURSIVE PathStr(_)
\* str(path): the parts joined by the separator
PathStr(p) ==
    IF Len(p) = 1 THEN p[1]
    ELSE p[1] \o <<"/">> \o PathStr(Tail(p))

StartsWith(s, prefix) ==
    Len(s) >= Len(prefix) /\ SubSeq(s, 1, Len(prefix)) = prefix

EndsWith(s, suffix) ==
    Len(s) >= Len(suffix)
    /\ SubSeq(s, Len(s) - Len(suffix) + 1, Len(s)) = suffix

Kosmos == <<"k", "o", "s", "m", "o", "s">>
DotKt == <<".", "k", "t">>

----------------------------------------------------------------------------
(* The file systems the scanner is run on *)

MaxFiles == 3     \* files in a tree
MaxPieces == 3    \* pieces a file's text is put together from

KosmosA == Kosmos \o <<"-", "a">>
KosmosB == Kosmos \o <<"-", "b">>
Other == <<"o", "t", "h", "e", "r">>
Src == <<"s", "r", "c">>
Gen == <<"g", "e", "n">>
Builds == <<"b", "u", "i", "l", "d", "s">>
Build == <<"b", "u", "i", "l", "d">>
DotGradle == <<".", "g", "r", "a", "d", "l", "e">>
OutDir == <<"o", "u", "t">>
DotIdea == <<".", "i", "d", "e", "a">>
DotGit == <<".", "g", "i", "t">>
AKt == <<"A", ".", "k", "t">>
BKt == <<"B", ".", "k", "t">>
CKt == <<"C", ".", "k", "t">>
AKts == <<"A", ".", "k", "t", "s">>
KosmosKt == <<"k", "o", "s", "m", "o", "s", ".", "k", "t">>

\* Files whose text and readability vary.
SourcePaths == { <<KosmosB, AKt>>, <<KosmosA, Src, BKt>>, <<KosmosA, AKt>> }

\* Files that are there or not: always readable, always with a hit.
OtherPaths ==
    { <<KosmosA, Build, Gen, CKt>>,
      <<KosmosA, Src, DotGradle, CKt>>,
      <<KosmosB, OutDir, CKt>>,
      <<KosmosB, Src, DotIdea, CKt>>,
      <<KosmosB, DotGit, CKt>>,
      <<KosmosA, Builds, CKt>>,
      <<KosmosB, AKts>>,
      <<Other, AKt>>,
      <<KosmosKt>> }

My == <<"m", "y">>
CleanText == My \o <<LF>>
HitText == My \o <<LF>> \o EqEqv \o My \o <<")", LF>>

\* What read_text does with a file: it returns the content (the text as
\* decoded, line ends already translated to LF), or raises
\* UnicodeDecodeError ("decode") or PermissionError ("perm").
Statuses == {"ok", "decode", "perm"}

SourceEntries ==
    { [content |-> CleanText, status |-> "ok"] }
        \cup { [content |-> HitText, status |-> st] : st \in Statuses }

OtherEntries == { [content |-> HitText, status |-> "ok"] }

EntriesOf(p) == IF p \in SourcePaths THEN SourceEntries ELSE OtherEntries

\* Trees of at most MaxFiles files.
ShapeTrees ==
    UNION { { t \in [S -> SourceEntries \cup OtherEntries] :
                \A p \in S : t[p] \in EntriesOf(p) } :
            S \in { X \in SUBSET (SourcePaths \cup OtherPaths) :
                      Cardinality(X) <= MaxFiles } }

Pieces == { EqEqv, PrRender, PrintableCompanion, My, <<" ">>, <<LF>>, <<FF>> }

RECURSIVE Concat(_)
Concat(ss) == IF ss = <<>> THEN <<>> ELSE Head(ss) \o Concat(Tail(ss))

\* The texts of at most MaxPieces pieces.
Texts == UNION { { Concat(ps) : ps \in [1..n -> Pieces] } : n \in 0..MaxPieces }

\* Trees of one readable file with any text.
TextTrees ==
    { [p \in {<<KosmosA, AKt>>} |-> [content |-> c, status |-> "ok"]] :
        c \in Texts }

Trees == ShapeTrees \cup TextTrees

\* The orders in which a directory's entries can be enumerated.
Orders(S) ==
    { s \in [1..Cardinality(S) -> S] :
        \A i, j \in 1..Cardinality(S) : i # j => s[i] # s[j] }

----------------------------------------------------------------------------
(* pathlib on the tree *)

\* root.iterdir(): the entries of ".", each a path of one part.
TopEntries == { <<p[1]>> : p \in DOMAIN tree }

\* d.is_dir()
IsDir(d) == \E p \in DOMAIN tree : Len(p) > Len(d) /\ SubSeq(p, 1, Len(d)) = d

\* d.name
Name(d) == d[Len(d)]

\* d.rglob("*.kt"): everything below d whose name ends in .kt.
RGlob(d) ==
    { p \in DOMAIN tree :
        /\ Len(p) > Len(d)
        /\ SubSeq(p, 1, Len(d)) = d
        /\ EndsWith(Name(p), DotKt) }

\* The test of the immediate parent directory only.
Excluded_ParentOnly(p) == Len(p) > 1 /\ p[Len(p) - 1] \in SKIP_DIRS

\* any(part in SKIP_DIRS for part in file_path.parts)
Excluded(p) == \E i \in DOMAIN p : p[i] \in SKIP_DIRS

----------------------------------------------------------------------------
(* The steps of main() *)

RECURSIVE HitPatternsOn(_, _)
\* The rules from k on tested against the text as highlighted so far.
HitPatternsOn(k, highlighted) ==
    IF k > Len(NITS) THEN <<>>
    ELSE IF Search(NITS[k].pat, highlighted)
         THEN <<NITS[k].pat>>
                  \o HitPatternsOn(k + 1, Sub(NITS[k].pat, highlighted))
         ELSE HitPatternsOn(k + 1, highlighted)

\* Testing and highlighting in one pass over the rules.
HitPatterns_OnHighlighted(line) == HitPatternsOn(1, line)

\* [pat for pat, _ in NITS if pat.search(line)]
HitPatterns(line) ==
    LET Hit(nit) == Search(nit.pat, line)
        hits == SelectSeq(NITS, Hit)
    IN  [k \in 1..Len(hits) |-> hits[k].pat]

RECURSIVE ScanLines_PerPattern(_, _)
\* One entry of matches for every rule that hits, not one for the line.
ScanLines_PerPattern(ls, n) ==
    IF n > Len(ls) THEN <<>>
    ELSE LET hit_patterns == HitPatterns(ls[n])
         IN  [k \in 1..Len(hit_patterns) |->
                 [line_num |-> n, line |-> ls[n],
                  hit_patterns |-> <<hit_patterns[k]>>]]
                 \o ScanLines_PerPattern(ls, n + 1)

RECURSIVE ScanLines(_, _)
\* The loop of lines 37-40 from line number n on.
ScanLines(ls, n) ==
    IF n > Len(ls) THEN <<>>
    ELSE LET hit_patterns == HitPatterns(ls[n])
         IN  (IF hit_patterns # <<>>
              THEN << [line_num |-> n, line |-> ls[n],
                       hit_patterns |-> hit_patterns] >>
              ELSE <<>>)
                 \o ScanLines(ls, n + 1)

RECURSIVE Highlight(_, _)
\* The loop of lines 50-52: one sub per hit pattern, each on the result
\* of the one before.
Highlight(highlighted, hit_patterns) ==
    IF hit_patterns = <<>> THEN highlighted
    ELSE Highlight(Sub(Head(hit_patterns), highlighted), Tail(hit_patterns))

\* f"{line_num}: {highlighted}"
HitLine(m) ==
    DecStr(m.line_num) \o <<":", " ">> \o Highlight(m.line, m.hit_patterns)

\* The two exit values exchanged.
ExitValue_Swapped(hits) == IF hits THEN 0 ELSE 1

\* 1 if any_hits else 0
ExitValue(hits) == IF hits THEN 1 ELSE 0

Init ==
    /\ tree \in Trees
    /\ color \in BOOLEAN
    /\ pc = "start"
    /\ kosmos_dirs = <<>>
    /\ dir_iter = <<>>
    /\ kosmos_dir = <<>>
    /\ file_iter = <<>>
    /\ file_path = <<>>
    /\ lines = <<>>
    /\ matches = <<>>
    /\ mi = 0
    /\ any_hits = FALSE
    /\ out = <<>>
    /\ result = -1

\* Lines 19-24: the top-level directories with the prefix, in the order
\* the file system lists them.
Discover ==
    /\ pc = "start"
    /\ \E order \in Orders(TopEntries) :
         LET Wanted(d) == IsDir(d) /\ StartsWith(Name(d), Kosmos)
         IN  kosmos_dirs' = SelectSeq(order, Wanted)
    /\ any_hits' = FALSE
    /\ pc' = "dirs"
    /\ UNCHANGED <<tree, color, dir_iter, kosmos_dir, file_iter, file_path,
                   lines, matches, mi, out, result>>

\* Line 26: sorted(kosmos_dirs)
SortDirs ==
    /\ pc = "dirs"
    /\ dir_iter' = SortedPaths(kosmos_dirs)
    /\ pc' = "next_dir"
    /\ UNCHANGED <<tree, color, kosmos_dirs, kosmos_dir, file_iter,
                   file_path, lines, matches, mi, any_hits, out, result>>

\* Lines 26-27: the next directory, its *.kt files sorted.
NextDir ==
    /\ pc = "next_dir"
    /\ dir_iter # <<>>
    /\ kosmos_dir' = Head(dir_iter)
    /\ dir_iter' = Tail(dir_iter)
    /\ \E order \in Orders(RGlob(Head(dir_iter))) :
         file_iter' = SortedPaths(order)
    /\ pc' = "next_file"
    /\ UNCHANGED <<tree, color, kosmos_dirs, file_path, lines, matches, mi,
                   any_hits, out, result>>

\* Line 26, the loop over: on to line 56.
DirsDone ==
    /\ pc = "next_dir"
    /\ dir_iter = <<>>
    /\ pc' = "return"
    /\ UNCHANGED <<tree, color, kosmos_dirs, dir_iter, kosmos_dir, file_iter,
                   file_path, lines, matches, mi, any_hits, out, result>>

\* Line 27: the next file.
NextFile ==
    /\ pc = "next_file"
    /\ file_iter # <<>>
    /\ file_path' = Head(file_iter)
    /\ file_iter' = Tail(file_iter)
    /\ pc' = "file"
    /\ UNCHANGED <<tree, color, kosmos_dirs, dir_iter, kosmos_dir, lines,
                   matches, mi, any_hits, out, result>>

\* Line 27, the loop over: back to line 26.
FilesDone ==
    /\ pc = "next_file"
    /\ file_iter = <<>>
    /\ pc' = "next_dir"
    /\ UNCHANGED <<tree, color, kosmos_dirs, dir_iter, kosmos_dir, file_iter,
                   file_path, lines, matches, mi, any_hits, out, result>>

\* Lines 28-29: a part of the path is a skipped directory.
SkipExcluded ==
    /\ pc = "file"
    /\ Excluded(file_path)
    /\ pc' = "next_file"
    /\ UNCHANGED <<tree, color, kosmos_dirs, dir_iter, kosmos_dir, file_iter,
                   file_path, lines, matches, mi, any_hits, out, result>>

\* break where the code has continue: the rest of the directory is lost.
SkipUnreadable_Break ==
    /\ pc = "file"
    /\ ~Excluded(file_path)
    /\ tree[file_path].status \in {"decode", "perm"}
    /\ pc' = "next_dir"
    /\ UNCHANGED <<tree, color, kosmos_dirs, dir_iter, kosmos_dir, file_iter,
                   file_path, lines, matches, mi, any_hits, out, result>>

\* Lines 31-34: read_text raises UnicodeDecodeError or PermissionError.
SkipUnreadable ==
    /\ pc = "file"
    /\ ~Excluded(file_path)
    /\ tree[file_path].status \in {"decode", "perm"}
    /\ pc' = "next_file"
    /\ UNCHANGED <<tree, color, kosmos_dirs, dir_iter, kosmos_dir, file_iter,
                   file_path, lines, matches, mi, any_hits, out, result>>

\* Lines 32-43: the text read and split, every line tested; a file
\* without a hit is left at once.
Scan ==
    /\ pc = "file"
    /\ ~Excluded(file_path)
    /\ tree[file_path].status = "ok"
    /\ lines' = SplitLines(tree[file_path].content)
    /\ matches' = ScanLines(lines', 1)
    /\ pc' = IF matches' = <<>> THEN "next_file" ELSE "report"
    /\ UNCHANGED <<tree, color, kosmos_dirs, dir_iter, kosmos_dir, file_iter,
                   file_path, mi, any_hits, out, result>>

\* Lines 45-46
PrintPath ==
    /\ pc = "report"
    /\ any_hits' = TRUE
    /\ out' = Append(out, PathStr(file_path))
    /\ mi' = 1
    /\ pc' = "hits"
    /\ UNCHANGED <<tree, color, kosmos_dirs, dir_iter, kosmos_dir, file_iter,
                   file_path, lines, matches, result>>

\* Lines 48-53: one hit line printed.
PrintHit ==
    /\ pc = "hits"
    /\ mi <= Len(matches)
    /\ out' = Append(out, HitLine(matches[mi]))
    /\ mi' = mi + 1
    /\ UNCHANGED <<tree, color, pc, kosmos_dirs, dir_iter, kosmos_dir,
                   file_iter, file_path, lines, matches, any_hits, result>>

\* Line 54: the empty line after the block.
PrintBlank ==
    /\ pc = "hits"
    /\ mi > Len(matches)
    /\ out' = Append(out, <<>>)
    /\ pc' = "next_file"
    /\ UNCHANGED <<tree, color, kosmos_dirs, dir_iter, kosmos_dir, file_iter,
                   file_path, lines, matches, mi, any_hits, result>>

\* Line 56
Return ==
    /\ pc = "return"
    /\ result' = ExitValue(any_hits)
    /\ pc' = "done"
    /\ UNCHANGED <<tree, color, kosmos_dirs, dir_iter, kosmos_dir, file_iter,
                   file_path, lines, matches, mi, any_hits, out>>

Next ==
    \/ Discover
    \/ SortDirs
    \/ NextDir
    \/ DirsDone
    \/ NextFile
    \/ FilesDone
    \/ SkipExcluded
    \/ SkipUnreadable
    \/ Scan
    \/ PrintPath
    \/ PrintHit
    \/ PrintBlank
    \/ Return

Spec == Init /\ [][Next]_vars

----------------------------------------------------------------------------
(* The notions the properties are stated in *)

Rules == 1..3

RuleTokens == <<EqEqv, PrRender, PrintableCompanion>>

\* Rule r's token stands at position i of s, at the start of s or after a
\* non-word character; for the third rule also not before a word character.
OccursAt(r, s, i) ==
    LET tok == RuleTokens[r]
        e == i + Len(tok)
    IN  /\ e - 1 <= Len(s)
        /\ SubSeq(s, i, e - 1) = tok
        /\ (i = 1 \/ ~IsWord(s[i - 1]))
        /\ (r = 3 => (e > Len(s) \/ ~IsWord(s[e])))

RuleHits(r, s) == \E i \in 1..Len(s) : OccursAt(r, s, i)

IsHitLine(s) == \E r \in Rules : RuleHits(r, s)

RECURSIVE NewlineLines(_)
\* s cut at its newline characters and nowhere else, without an empty
\* last line after a final newline.
NewlineLines(s) ==
    IF s = <<>> THEN <<>>
    ELSE LET nl == {j \in DOMAIN s : s[j] = LF}
         IN  IF nl = {} THEN <<s>>
             ELSE LET j == CHOOSE x \in nl : \A y \in nl : x <= y
                  IN  <<SubSeq(s, 1, j - 1)>>
                          \o NewlineLines(SubSeq(s, j + 1, Len(s)))

\* A directory on the way to the file has one of the five skipped names.
HasSkipPart(p) ==
    \E i \in 1..(Len(p) - 1) :
        p[i] \in {Build, DotGradle, OutDir, DotIdea, DotGit}

\* The scanned files: readable *.kt files below a top-level kosmos*
\* directory, with no skipped directory on the way.
ScannedFiles ==
    { p \in DOMAIN tree :
        /\ Len(p) >= 2
        /\ StartsWith(p[1], Kosmos)
        /\ EndsWith(p[Len(p)], DotKt)
        /\ ~HasSkipPart(p)
        /\ tree[p].status = "ok" }

\* The numbers of the hit lines of file p, its lines the scanner's.
HitLineNums(p) ==
    LET ls == SplitLines(tree[p].content)
    IN  {n \in DOMAIN ls : IsHitLine(ls[n])}

HitFiles == {p \in ScannedFiles : HitLineNums(p) # {}}

\* The k-th smallest element of a set of numbers.
Nth(S, k) == CHOOSE x \in S : Cardinality({y \in S : y < x}) = k - 1

\* The paths of S in ascending order.
Ascending(S) ==
    CHOOSE s \in Orders(S) :
        \A i, j \in DOMAIN s : i < j => PathLess(s[i], s[j])

DigitSet == {Digits[d] : d \in DOMAIN Digits}

\* The three kinds of output line: a path, "<n>: <text>", the empty line.
IsHeaderOut(l) == l # <<>> /\ l[1] \notin DigitSet
IsHitOut(l) == l # <<>> /\ l[1] \in DigitSet

RECURSIVE NatFrom(_, _, _)
NatFrom(l, i, acc) ==
    IF i <= Len(l) /\ l[i] \in DigitSet
    THEN NatFrom(l, i + 1,
                 acc * 10 + (CHOOSE d \in DOMAIN Digits : Digits[d] = l[i]) - 1)
    ELSE acc

\* The number an output line begins with.
NumOf(l) == NatFrom(l, 1, 0)

RECURSIVE SplitSlash(_)
\* The parts of a printed path.
SplitSlash(l) ==
    LET sl == {j \in DOMAIN l : l[j] = "/"}
    IN  IF sl = {} THEN <<l>>
        ELSE LET j == CHOOSE x \in sl : \A y \in sl : x <= y
             IN  <<SubSeq(l, 1, j - 1)>> \o SplitSlash(SubSeq(l, j + 1, Len(l)))

\* The paths printed so far, in the order of printing.
Headers ==
    LET hs == SelectSeq(out, IsHeaderOut)
    IN  [i \in DOMAIN hs |-> SplitSlash(hs[i])]

RECURSIVE StripMarkers(_)
\* l without the emphasis markers.
StripMarkers(l) ==
    IF l = <<>> THEN <<>>
    ELSE IF StartsWith(l, RED) THEN StripMarkers(SubSeq(l, Len(RED) + 1, Len(l)))
    ELSE IF StartsWith(l, RESET)
         THEN StripMarkers(SubSeq(l, Len(RESET) + 1, Len(l)))
    ELSE <<Head(l)>> \o StripMarkers(Tail(l))

\* The block of file p without emphasis.
PlainBlock(p) ==
    LET ls == SplitLines(tree[p].content)
        nums == HitLineNums(p)
    IN  <<PathStr(p)>>
            \o [k \in 1..Cardinality(nums) |->
                   DecStr(Nth(nums, k)) \o <<":", " ">> \o ls[Nth(nums, k)]]
            \o << <<>> >>

RECURSIVE PlainBlocks(_)
PlainBlocks(ps) ==
    IF ps = <<>> THEN <<>> ELSE PlainBlock(Head(ps)) \o PlainBlocks(Tail(ps))

\* The report without emphasis: the blocks of the hit files, ascending.
PlainReport == PlainBlocks(Ascending(HitFiles))

RECURSIVE EmphFrom(_, _)
\* s from position i on with every occurrence of a rule's token, as
\* OccursAt finds it in s itself, between the two markers.
EmphFrom(s, i) ==
    IF i > Len(s) THEN <<>>
    ELSE IF \E r \in Rules : OccursAt(r, s, i)
         THEN LET r == CHOOSE x \in Rules : OccursAt(x, s, i)
              IN  RED \o RuleTokens[r] \o RESET
                      \o EmphFrom(s, i + Len(RuleTokens[r]))
         ELSE <<s[i]>> \o EmphFrom(s, i + 1)

Emphasized(s) == EmphFrom(s, 1)

RECURSIVE BlocksFrom(_, _)
\* out from line i on is a sequence of well-formed blocks, one for every
\* hit file not in seen: the path, one "<n>: " line per hit line, an
\* empty line.
BlocksFrom(i, seen) ==
    IF i > Len(out) THEN seen = HitFiles
    ELSE /\ IsHeaderOut(out[i])
         /\ LET p == SplitSlash(out[i])
            IN  /\ p \in HitFiles
                /\ p \notin seen
                /\ out[i] = PathStr(p)
                /\ LET nums == HitLineNums(p)
                       n == Cardinality(nums)
                   IN  /\ i + n + 1 <= Len(out)
                       /\ \A k \in 1..n :
                            StartsWith(out[i + k],
                                       DecStr(Nth(nums, k)) \o <<":", " ">>)
                       /\ out[i + n + 1] = <<>>
                       /\ BlocksFrom(i + n + 2, seen \cup {p})

----------------------------------------------------------------------------
(* The properties *)

TypeOK ==
    /\ pc \in {"start", "dirs", "next_dir", "next_file", "file", "report",
               "hits", "return", "done"}
    /\ result \in {-1, 0, 1}
    /\ any_hits \in BOOLEAN

\* C1: main() returns 1 exactly when some scanned file has a line that a
\* rule matches, and 0 otherwise; with no top-level kosmos* directory
\* nothing is printed and 0 is returned.
C1_ExitStatus ==
    pc = "done" =>
        /\ result =
             IF \E p \in ScannedFiles :
                    LET ls == NewlineLines(tree[p].content)
                    IN  \E n \in DOMAIN ls : IsHitLine(ls[n])
             THEN 1 ELSE 0
        /\ (~(\E p \in DOMAIN tree : Len(p) >= 2 /\ StartsWith(p[1], Kosmos))
               => out = <<>> /\ result = 0)

C1_Witness ==
    /\ pc = "done"
    /\ result = 1
    /\ \E p \in DOMAIN tree : p \notin ScannedFiles

\* C2: a file whose read fails with a decoding or a permission error adds
\* nothing to the output, leaves any_hits as it is, and the scan goes on
\* with the next file of the directory.
C2_UnreadableSkipped ==
    [][ (/\ pc = "file"
         /\ ~HasSkipPart(file_path)
         /\ tree[file_path].status \in {"decode", "perm"})
        => /\ out' = out
           /\ any_hits' = any_hits
           /\ result' = result
           /\ pc' = "next_file"
           /\ file_iter' = file_iter
           /\ dir_iter' = dir_iter ]_vars

C2_Witness ==
    /\ pc = "next_file"
    /\ file_path \in DOMAIN tree
    /\ ~HasSkipPart(file_path)
    /\ tree[file_path].status = "decode"
    /\ IsHitLine(SplitLines(tree[file_path].content)[2])
    /\ file_iter # <<>>

\* C3: on a terminal every occurrence of a hit rule's token in the line is
\* printed between the two markers, whatever stands next to it.
C3_AllMatchesBracketed ==
    (color /\ pc = "hits" /\ mi > 1) =>
        LET m == matches[mi - 1]
        IN  out[Len(out)]
                = DecStr(m.line_num) \o <<":", " ">> \o Emphasized(m.line)

\* C4: a file below a directory named build, .gradle, out, .idea or .git,
\* at any depth, is never reported and never sets any_hits; a file below
\* no such directory is not skipped by the test of lines 28-29.
C4_Exclusion ==
    /\ \A p \in DOMAIN tree :
          HasSkipPart(p) => \A i \in DOMAIN out : out[i] # PathStr(p)
    /\ (pc \in {"report", "hits"} => ~HasSkipPart(file_path))
    /\ (pc = "file" /\ ~HasSkipPart(file_path) => ~ENABLED SkipExcluded)

C4_Witness ==
    /\ pc = "next_file"
    /\ file_path = <<KosmosA, Build, Gen, CKt>>
    /\ IsHitLine(SplitLines(tree[file_path].content)[2])

\* C5: whatever the order of enumeration, the printed paths ascend (by
\* root directory, then by path), the line numbers inside a block ascend
\* strictly, and at the end the printed paths are those of the hit files.
C5_Order ==
    /\ \A i, j \in DOMAIN Headers :
          i < j => PathLess(Headers[i], Headers[j])
    /\ \A i \in 1..(Len(out) - 1) :
          IsHitOut(out[i]) /\ IsHitOut(out[i + 1])
              => NumOf(out[i]) < NumOf(out[i + 1])
    /\ (pc = "done" => {Headers[i] : i \in DOMAIN Headers} = HitFiles)

C5_Witness ==
    /\ pc = "done"
    /\ kosmos_dirs = << <<KosmosB>>, <<KosmosA>> >>
    /\ Len(Headers) >= 2
    /\ Headers[1][1] = KosmosA

\* C6: the output is one block per scanned file with a hit line and
\* nothing else: the path, one line "<n>: <text>" per hit line, one empty
\* line.
C6_Blocks == pc = "done" => BlocksFrom(1, {})

C6_Witness ==
    /\ pc = "done"
    /\ Len(out) = 3
    /\ \E k \in DOMAIN matches : Len(matches[k].hit_patterns) >= 2

\* C7: off a terminal the text printed after "<n>: " is the line as read,
\* and no marker is in the output.
C7_PlainText ==
    ~color =>
        /\ \A i \in DOMAIN out : \A j \in DOMAIN out[i] : out[i][j] # ESC
        /\ (pc = "hits" /\ mi > 1 =>
               LET m == matches[mi - 1]
               IN  /\ m.line = lines[m.line_num]
                   /\ out[Len(out)]
                          = DecStr(m.line_num) \o <<":", " ">> \o m.line)

C7_Witness ==
    /\ ~color
    /\ pc = "hits"
    /\ mi > 1
    /\ Len(matches[mi - 1].hit_patterns) >= 2

\* C8: the files reported, the hit line numbers, the rules matched on a
\* hit line and the exit status are the same on and off a terminal: each
\* is what the tree alone determines, and the output differs from the
\* plain report by markers only.
C8_ColorIndependent ==
    /\ (pc \in {"report", "hits"} =>
           \A k \in DOMAIN matches :
               LET m == matches[k]
               IN  {m.hit_patterns[j] : j \in DOMAIN m.hit_patterns}
                       = {NITS[r].pat : r \in {x \in Rules : RuleHits(x, m.line)}})
    /\ (pc = "done" =>
           /\ result = IF HitFiles = {} THEN 0 ELSE 1
           /\ [i \in DOMAIN out |-> StripMarkers(out[i])] = PlainReport)

C8_Witness ==
    /\ color
    /\ pc = "done"
    /\ \E i \in DOMAIN out : \E j \in DOMAIN out[i] : out[i][j] = ESC
    /\ \E k \in DOMAIN matches : Len(matches[k].hit_patterns) >= 2

\* C9: a line is a hit for a rule exactly when the rule's token stands in
\* it at the start or after a non-word character (and, for the third
\* rule, not before a word character).
C9_WordBoundary ==
    \A n \in DOMAIN lines : \A r \in Rules :
        (\E k \in DOMAIN matches :
            /\ matches[k].line_num = n
            /\ \E j \in DOMAIN matches[k].hit_patterns :
                   matches[k].hit_patterns[j] = NITS[r].pat)
            <=> RuleHits(r, lines[n])

C9_Witness ==
    /\ pc = "next_file"
    /\ lines = <<My \o EqEqv \o My>>
    /\ matches = <<>>

\* C10: the lines of a file are its text cut at the newline characters
\* only, and a hit's number is its position among them.
C10_NewlineNumbering ==
    pc \in {"report", "hits"} =>
        /\ lines = NewlineLines(tree[file_path].content)
        /\ \A k \in DOMAIN matches :
               matches[k].line = lines[matches[k].line_num]
        /\ (pc = "hits" /\ mi > 1 =>
               NumOf(out[Len(out)]) = matches[mi - 1].line_num)

====
